---- MODULE Spec2Model ----
(***************************************************************************)
(* Authentication and refresh-token lifecycle of the wallet API:           *)
(* app/services/auth_service.py, app/services/user_service.py,             *)
(* app/core/security.py, app/models/{user,token}.py.                       *)
(*                                                                         *)
(* Time is counted in seconds, the resolution of the "exp" claim of a JWT. *)
(* A request handler that reads the store and later commits is split at    *)
(* the commit, so that two requests interleave as two sessions do.         *)
(***************************************************************************)
EXTENDS Integers, FiniteSets, Sequences, TLC

\* ------------------------------------------------------------------ settings
ACCESS_TOKEN_EXPIRE_MINUTES == 30
REFRESH_TOKEN_EXPIRE_DAYS == 7

\* ------------------------------------------------------------------- bounds
\* rows the refresh token table may hold
MaxTokens == 2
\* rows it may hold where two sessions interleave
MaxRaceTokens == 1
\* the largest ttl passed explicitly to the token signer
MaxTtl == 6

Emails == {"a@x.com", "b@x.com"}
Passwords == {"pw123456", "wrongpw0"}
\* the emails and passwords users register with in the authentication core
RegisteredEmails == {"a@x.com"}
SignupPasswords == {"pw123456"}
\* core/config.py: the account create_first_superuser makes at startup
FIRST_SUPERUSER == "admin@x.com"
FIRST_SUPERUSER_PASSWORD == "changethis"
\* the two concurrent requests (sessions) the race claims are about
Procs == {"c1", "c2"}

VARIABLES
    now,     \* the wall clock, seconds
    users,   \* table "user": a set of rows
    tokens,  \* table "refreshtoken": a set of rows
    proc,    \* per client session: the request in flight, its loaded objects
    resp     \* the response the last step sent (with the request it answers),
             \* NoResponse when it sent none

vars == <<now, users, tokens, proc, resp>>

\* --------------------------------------------------------------- primitives
\* Optional[T]: None, or a value
None == <<>>
Some(x) == <<x>>
Get(o) == o[1]

\* datetime.timedelta, in seconds
timedelta_minutes(m) == m * 60
timedelta_days(d) == d * 86400

\* datetime.now(timezone.utc): an aware datetime
utcnow == [t |-> now, tz |-> "utc"]
\* a DateTime column keeps the wall-clock value and no tzinfo
db_datetime(dt) == [t |-> dt.t, tz |-> "naive"]
\* record.expires_at.replace(tzinfo=timezone.utc) when tzinfo is None
ensure_aware(dt) == IF dt.tz = "naive" THEN [t |-> dt.t, tz |-> "utc"] ELSE dt

\* str(subject)
str(x) == <<"str", x>>

\* pwdlib PasswordHash: hash and verify
get_password_hash(password) == [scheme |-> "argon2", of |-> password]
verify_password(plain_password, hashed_password) ==
    hashed_password = get_password_hash(plain_password)

\* security._expiration
_expiration(delta) == [t |-> now + delta, tz |-> "utc"]

\* security._create_token: jwt.encode of {sub, exp}; exp becomes whole seconds,
\* the signature is a function of the payload and the key
_create_token(subject, expires, secret_key, algorithm) ==
    [sub |-> str(subject), exp |-> expires.t, alg |-> algorithm, sig |-> secret_key]

\* Python's "value or default" on Optional[int]: None and 0 are both falsy
python_or(value, default) ==
    IF value = None THEN default
    ELSE IF Get(value) = 0 THEN default
    ELSE Get(value)

\* security.create_access_token(subject, expires_minutes)
security_create_access_token_ttl(subject, expires_minutes) ==
    LET minutes == python_or(expires_minutes, ACCESS_TOKEN_EXPIRE_MINUTES)
    IN  _create_token(subject, _expiration(timedelta_minutes(minutes)),
                      "SECRET_KEY", "HS256")

\* security.create_refresh_token(subject, expires_days)
create_refresh_token_ttl(subject, expires_days) ==
    LET days == python_or(expires_days, REFRESH_TOKEN_EXPIRE_DAYS)
    IN  _create_token(subject, _expiration(timedelta_days(days)),
                      "REFRESH_SECRET_KEY", "HS256")

\* the calls the services make: no ttl passed
security_create_access_token(subject) ==
    security_create_access_token_ttl(subject, None)

create_refresh_token(subject) ==
    create_refresh_token_ttl(subject, None)

\* auth_service.create_access_token
create_access_token(user_id) == security_create_access_token(user_id)

\* ------------------------------------------------------------------- inputs
RefreshLifetime == timedelta_days(REFRESH_TOKEN_EXPIRE_DAYS)
\* the instants the clock visits: the start, and for a refresh token issued at
\* the start the second before its expiry, its expiry and the second after
Instants == {0, RefreshLifetime - 1, RefreshLifetime, RefreshLifetime + 1}
UserIds == 1..Cardinality(Emails)
\* token strings a client may present: every string a login of the first user
\* can return, one for a user who never logs in, and one with the payload of
\* a stored token but signed with the access key
IssuableStrings ==
    {[sub |-> str(1), exp |-> t + RefreshLifetime, alg |-> "HS256",
      sig |-> "REFRESH_SECRET_KEY"] : t \in Instants}
TokenStrings ==
    IssuableStrings
    \cup {[sub |-> str(2), exp |-> RefreshLifetime, alg |-> "HS256",
           sig |-> "REFRESH_SECRET_KEY"],
          [sub |-> str(1), exp |-> RefreshLifetime, alg |-> "HS256",
           sig |-> "SECRET_KEY"]}
\* UserUpdate payloads, model_dump(exclude_unset=True)
StatusPatches == {[is_active |-> b] : b \in BOOLEAN}
Patches == StatusPatches \cup {[email |-> e] : e \in Emails}
\* the ttl argument of the token signer: not passed, or a number
Ttls == {None} \cup {Some(n) : n \in 0..MaxTtl}
\* UserUpdateMe payloads
EmailPatches == {[email |-> e] : e \in Emails}
\* UserCreate payloads: UserBase lets the caller send is_active and is_superuser
UserCreates ==
    [email : Emails, password : SignupPasswords,
     is_active : BOOLEAN, is_superuser : BOOLEAN]
\* the ids of the rows the user table can hold: one per email of Emails and one
\* for FIRST_SUPERUSER
StoredUserIds == 1..Cardinality(Emails \cup {FIRST_SUPERUSER})

\* ------------------------------------------------------------------ queries
\* user_service.get_user_by_email
get_user_by_email(email) ==
    LET found == {u \in users : u.email = email}
    IN  IF found = {} THEN None ELSE Some(CHOOSE u \in found : TRUE)

\* session.get(User, user_id)
session_get_user(user_id) ==
    LET found == {u \in users : u.id = user_id}
    IN  IF found = {} THEN None ELSE Some(CHOOSE u \in found : TRUE)

\* auth_service.authenticate
authenticate(email, password) ==
    LET user == get_user_by_email(email)
    IN  IF user = None THEN None
        ELSE IF ~verify_password(password, Get(user).hashed_password) THEN None
        ELSE user

\* validate_refresh_token without the check of the revoked flag
validate_ignoring_revoked(token) ==
    LET found == {r \in tokens : r.token = token}
    IN  IF found = {} THEN None
        ELSE LET record == CHOOSE r \in found : TRUE
                 aware == [record EXCEPT !.expires_at = ensure_aware(@)]
             IN  IF aware.expires_at.t < utcnow.t THEN None
                 ELSE Some(aware)

\* validate_refresh_token without the check of expires_at
validate_ignoring_expiry(token) ==
    LET found == {r \in tokens : r.token = token}
    IN  IF found = {} THEN None
        ELSE LET record == CHOOSE r \in found : TRUE
                 aware == [record EXCEPT !.expires_at = ensure_aware(@)]
             IN  IF record.revoked THEN None
                 ELSE Some(aware)

\* validate_refresh_token looking the record up by the payload of the token
\* string, whatever key signed it
validate_ignoring_signature(token) ==
    LET found == {r \in tokens : r.token.sub = token.sub /\ r.token.exp = token.exp}
    IN  IF found = {} THEN None
        ELSE LET record == CHOOSE r \in found : TRUE
                 aware == [record EXCEPT !.expires_at = ensure_aware(@)]
             IN  IF record.revoked THEN None
                 ELSE IF aware.expires_at.t < utcnow.t THEN None
                 ELSE Some(aware)

\* auth_service.validate_refresh_token: the loaded record, or None
validate_refresh_token(token) ==
    LET found == {r \in tokens : r.token = token}
    IN  IF found = {} THEN None
        ELSE LET record == CHOOSE r \in found : TRUE
                 aware == [record EXCEPT !.expires_at = ensure_aware(@)]
             IN  IF record.revoked THEN None
                 ELSE IF aware.expires_at.t < utcnow.t THEN None
                 ELSE Some(aware)

\* ---------------------------------------------------------------- responses
Idle == [stage |-> "idle"]
CanBegin(p) == proc[p] = Idle

Response(op, req, status, detail, body) ==
    [op |-> op, req |-> req, status |-> status, detail |-> detail, body |-> body]
NoResponse == Response("none", None, 0, "", None)

\* the handler of p returns or raises: the response goes out, the session ends
Respond(p, op, req, status, detail, body) ==
    /\ resp' = Response(op, req, status, detail, body)
    /\ proc' = [proc EXCEPT ![p] = Idle]

\* the handler of p goes on to its next store access
Continue(p, frame) ==
    /\ proc' = [proc EXCEPT ![p] = frame]
    /\ resp' = NoResponse

\* --------------------------------------------------------------------- init
Init ==
    /\ now = 0
    /\ users = {}
    /\ tokens = {}
    /\ proc = [p \in Procs |-> Idle]
    /\ resp = NoResponse

\* ------------------------------------------------------------------- clock
Tick ==
    /\ \E t \in Instants : t > now /\ now' = t
    /\ resp' = NoResponse
    /\ UNCHANGED <<users, tokens, proc>>

\* ------------------------------------------------------- refresh token store
\* models/token.py: token is unique=True; an INSERT of a duplicate fails
token_unique_violation(row) == \E r \in tokens : r.token = row.token

\* the RefreshToken(...) object create_refresh_token_record builds
new_token_record(user_id) ==
    [id |-> Cardinality(tokens) + 1,
     user_id |-> user_id,
     token |-> create_refresh_token(user_id),
     created_at |-> db_datetime(utcnow),
     expires_at |-> db_datetime([t |-> utcnow.t + timedelta_days(REFRESH_TOKEN_EXPIRE_DAYS),
                                 tz |-> "utc"]),
     last_used_at |-> None,
     revoked |-> FALSE,
     revoked_at |-> None]

\* issuing a record and revoking the records the user already has
create_revoking_earlier(user_id) ==
    IF token_unique_violation(new_token_record(user_id))
    THEN tokens
    ELSE {IF r.user_id = user_id
          THEN [r EXCEPT !.revoked = TRUE, !.revoked_at = Some(db_datetime(utcnow))]
          ELSE r : r \in tokens} \cup {new_token_record(user_id)}

\* auth_service.create_refresh_token_record: the table after session.commit(),
\* which is the table unchanged when the INSERT raises IntegrityError
create_refresh_token_record(user_id) ==
    IF token_unique_violation(new_token_record(user_id))
    THEN tokens
    ELSE tokens \cup {new_token_record(user_id)}

\* revoking without the timestamp
revoke_without_stamp(token_record) ==
    {IF r.id = token_record.id
     THEN [r EXCEPT !.revoked = TRUE,
                    !.expires_at = db_datetime(token_record.expires_at)]
     ELSE r : r \in tokens}

\* revoking every record of the owner of the record
revoke_all_of_user(token_record) ==
    {IF r.user_id = token_record.user_id
     THEN [r EXCEPT !.revoked = TRUE,
                    !.revoked_at = Some(db_datetime(utcnow))]
     ELSE r : r \in tokens}

\* revoking by deleting the row
revoke_by_delete(token_record) == {r \in tokens : r.id # token_record.id}

\* auth_service.revoke_refresh_token: the table after its commit. The UPDATE
\* carries the attributes set since the record was loaded: revoked, revoked_at
\* and expires_at (validate_refresh_token having replaced it)
revoke_refresh_token(token_record) ==
    {IF r.id = token_record.id
     THEN [r EXCEPT !.revoked = TRUE,
                    !.revoked_at = Some(db_datetime(utcnow)),
                    !.expires_at = db_datetime(token_record.expires_at)]
     ELSE r : r \in tokens}

\* the touch of a sliding session: it also moves expires_at
touch_sliding_expiry(record, last_used_at) ==
    {IF r.id = record.id
     THEN [r EXCEPT !.last_used_at = Some(db_datetime(last_used_at)),
                    !.expires_at = db_datetime([t |-> utcnow.t + timedelta_days(REFRESH_TOKEN_EXPIRE_DAYS),
                                                tz |-> "utc"])]
     ELSE r : r \in tokens}

\* the touch writing every column of the loaded object back to its row
touch_writing_loaded_row(record, last_used_at) ==
    {IF r.id = record.id
     THEN [record EXCEPT !.last_used_at = Some(db_datetime(last_used_at)),
                         !.expires_at = db_datetime(record.expires_at)]
     ELSE r : r \in tokens}

\* auth_service.refresh lines 226-227: the table after the commit of the
\* touch, last_used_at being the clock value line 225 assigned
touch_refresh_token(record, last_used_at) ==
    {IF r.id = record.id
     THEN [r EXCEPT !.last_used_at = Some(db_datetime(last_used_at)),
                    !.expires_at = db_datetime(record.expires_at)]
     ELSE r : r \in tokens}

\* ------------------------------------------------------------------- login
\* login telling an unknown email from a wrong password
login_naming_unknown_email(p, email, password) ==
    LET user == authenticate(email, password)
        req == [email |-> email, password |-> password]
    IN  /\ CanBegin(p)
        /\ IF get_user_by_email(email) = None
           THEN /\ Respond(p, "login", req, 404, "User not found", None)
                /\ UNCHANGED tokens
           ELSE IF user = None
           THEN /\ Respond(p, "login", req, 400, "Incorrect email or password", None)
                /\ UNCHANGED tokens
           ELSE IF ~Get(user).is_active
           THEN /\ Respond(p, "login", req, 400, "Inactive user", None)
                /\ UNCHANGED tokens
           ELSE LET access == create_access_token(Get(user).id)
                    refresh_record == new_token_record(Get(user).id)
                IN  /\ token_unique_violation(refresh_record)
                       \/ Cardinality(tokens) < MaxTokens
                    /\ tokens' = create_refresh_token_record(Get(user).id)
                    /\ IF token_unique_violation(refresh_record)
                       THEN Respond(p, "login", req, 500, "IntegrityError", None)
                       ELSE Respond(p, "login", req, 200, "",
                                    Some([access_token |-> access,
                                          refresh_token |-> refresh_record.token]))
        /\ UNCHANGED <<now, users>>

\* login without the check of is_active
login_ignoring_is_active(p, email, password) ==
    LET user == authenticate(email, password)
        req == [email |-> email, password |-> password]
    IN  /\ CanBegin(p)
        /\ IF user = None
           THEN /\ Respond(p, "login", req, 400, "Incorrect email or password", None)
                /\ UNCHANGED tokens
           ELSE LET access == create_access_token(Get(user).id)
                    refresh_record == new_token_record(Get(user).id)
                IN  /\ token_unique_violation(refresh_record)
                       \/ Cardinality(tokens) < MaxTokens
                    /\ tokens' = create_refresh_token_record(Get(user).id)
                    /\ IF token_unique_violation(refresh_record)
                       THEN Respond(p, "login", req, 500, "IntegrityError", None)
                       ELSE Respond(p, "login", req, 200, "",
                                    Some([access_token |-> access,
                                          refresh_token |-> refresh_record.token]))
        /\ UNCHANGED <<now, users>>

\* auth_service.login, one session: authenticate, is_active, issue, commit
login(p, email, password) ==
    LET user == authenticate(email, password)
        req == [email |-> email, password |-> password]
    IN  /\ CanBegin(p)
        /\ IF user = None
           THEN /\ Respond(p, "login", req, 400, "Incorrect email or password", None)
                /\ UNCHANGED tokens
           ELSE IF ~Get(user).is_active
           THEN /\ Respond(p, "login", req, 400, "Inactive user", None)
                /\ UNCHANGED tokens
           ELSE LET access == create_access_token(Get(user).id)
                    refresh_record == new_token_record(Get(user).id)
                IN  /\ token_unique_violation(refresh_record)
                       \/ Cardinality(tokens) < MaxTokens
                    /\ tokens' = create_refresh_token_record(Get(user).id)
                    /\ IF token_unique_violation(refresh_record)
                       THEN Respond(p, "login", req, 500, "IntegrityError", None)
                       ELSE Respond(p, "login", req, 200, "",
                                    Some([access_token |-> access,
                                          refresh_token |-> refresh_record.token]))
        /\ UNCHANGED <<now, users>>

\* ------------------------------------------------------------------ refresh
\* auth_service.refresh lines 221-223: validate, fail or hold the record
refresh_validate(p, refresh_token) ==
    LET record == validate_refresh_token(refresh_token)
        req == [refresh_token |-> refresh_token]
    IN  /\ CanBegin(p)
        /\ IF record = None
           THEN Respond(p, "refresh", req, 401, "Invalid or expired refresh token", None)
           ELSE Continue(p, [stage |-> "refresh_stamp", op |-> "refresh",
                             req |-> req, record |-> Get(record)])
        /\ UNCHANGED <<now, users, tokens>>

\* auth_service.refresh line 225: the session reads the clock and assigns it
\* to last_used_at of the loaded object; the commit comes later
refresh_stamp(p) ==
    /\ proc[p].stage = "refresh_stamp"
    /\ Continue(p, [stage |-> "refresh_touch", op |-> proc[p].op,
                    req |-> proc[p].req, record |-> proc[p].record,
                    stamp |-> utcnow])
    /\ UNCHANGED <<now, users, tokens>>

\* refresh_touch as a conditional update: it fails when the row is no longer
\* as loaded
refresh_touch_if_unchanged(p) ==
    LET row == CHOOSE r \in tokens : r.id = proc[p].record.id
    IN  /\ proc[p].stage = "refresh_touch"
        /\ IF row.last_used_at # proc[p].record.last_used_at \/ row.revoked
           THEN /\ Respond(p, "refresh", proc[p].req, 401,
                           "Invalid or expired refresh token", None)
                /\ UNCHANGED tokens
           ELSE /\ tokens' = touch_refresh_token(proc[p].record, proc[p].stamp)
                /\ Respond(p, "refresh", proc[p].req, 200, "",
                           Some([access_token |-> create_access_token(proc[p].record.user_id),
                                 refresh_token |-> proc[p].record.token]))
        /\ UNCHANGED <<now, users>>

\* auth_service.refresh lines 226-230: commit the touch, new access token
refresh_touch(p) ==
    /\ proc[p].stage = "refresh_touch"
    /\ tokens' = touch_refresh_token(proc[p].record, proc[p].stamp)
    /\ Respond(p, "refresh", proc[p].req, 200, "",
               Some([access_token |-> create_access_token(proc[p].record.user_id),
                     refresh_token |-> proc[p].record.token]))
    /\ UNCHANGED <<now, users>>

\* ------------------------------------------------------------------- logout
\* auth_service.logout lines 243-245
logout_validate(p, refresh_token) ==
    LET record == validate_refresh_token(refresh_token)
        req == [refresh_token |-> refresh_token]
    IN  /\ CanBegin(p)
        /\ IF record = None
           THEN Respond(p, "logout", req, 401, "Invalid refresh token", None)
           ELSE Continue(p, [stage |-> "logout_revoke", op |-> "logout",
                             req |-> req, record |-> Get(record)])
        /\ UNCHANGED <<now, users, tokens>>

\* auth_service.logout line 247
logout_revoke(p) ==
    /\ proc[p].stage = "logout_revoke"
    /\ tokens' = revoke_refresh_token(proc[p].record)
    /\ Respond(p, "logout", proc[p].req, 204, "", None)
    /\ UNCHANGED <<now, users>>

\* ------------------------------------------------------------------- signup
\* schemas/user.py UserRead: what a user response shows
UserRead(u) ==
    [id |-> u.id, email |-> u.email, is_active |-> u.is_active,
     is_superuser |-> u.is_superuser]

\* the user table without the unique index on email
email_unique_never(id, email) == FALSE

\* models/user.py: email is unique=True
email_unique_violation(id, email) ==
    \E u \in users : u.email = email /\ u.id # id

\* the User(...) object user_service.create builds: flags take their defaults
new_user(email, password) ==
    [id |-> Cardinality(users) + 1,
     email |-> email,
     hashed_password |-> get_password_hash(password),
     is_active |-> TRUE,
     is_superuser |-> FALSE]

\* auth_service.signup lines 100-108: the existence pre-check
signup_check(p, email, password) ==
    LET req == [email |-> email, password |-> password]
    IN  /\ CanBegin(p)
        /\ IF get_user_by_email(email) # None
           THEN Respond(p, "signup", req, 400,
                        "A user with this email already exists.", None)
           ELSE Continue(p, [stage |-> "create_check", op |-> "signup", req |-> req])
        /\ UNCHANGED <<now, users, tokens>>

\* user_service.create lines 126-127: its own existence check
create_check(p) ==
    /\ proc[p].stage = "create_check"
    /\ IF get_user_by_email(proc[p].req.email) # None
       THEN Respond(p, proc[p].op, proc[p].req, 409, "Email is already registered", None)
       ELSE Continue(p, [proc[p] EXCEPT !.stage = "create_insert"])
    /\ UNCHANGED <<now, users, tokens>>

\* user_service.create lines 129-138: INSERT and commit
create_insert(p) ==
    LET db_user == new_user(proc[p].req.email, proc[p].req.password)
    IN  /\ proc[p].stage = "create_insert"
        /\ IF email_unique_violation(db_user.id, db_user.email)
           THEN /\ Respond(p, proc[p].op, proc[p].req, 500, "IntegrityError", None)
                /\ UNCHANGED users
           ELSE /\ users' = users \cup {db_user}
                /\ Respond(p, proc[p].op, proc[p].req, 201, "", Some(UserRead(db_user)))
        /\ UNCHANGED <<now, tokens>>

\* ------------------------------------------------------------------- update
\* user_service.update lines 156-168: load the user, check the new email
update_check(p, user_id, patch) ==
    LET db_user == session_get_user(user_id)
        req == [user_id |-> user_id, patch |-> patch]
        existing == IF "email" \in DOMAIN patch
                    THEN get_user_by_email(patch.email) ELSE None
    IN  /\ CanBegin(p)
        /\ IF db_user = None
           THEN Respond(p, "update", req, 404, "User not found", None)
           ELSE IF existing # None /\ Get(existing).id # user_id
           THEN Respond(p, "update", req, 409, "Email is already registered", None)
           ELSE Continue(p, [stage |-> "update_commit", op |-> "update",
                             req |-> req, db_user |-> Get(db_user)])
        /\ UNCHANGED <<now, users, tokens>>

\* user_service.update_me lines 213-218: the authenticated user is loaded
\* already; check the new email
update_me_check(p, user_id, patch) ==
    LET current_user == session_get_user(user_id)
        req == [user_id |-> user_id, patch |-> patch]
        existing == IF "email" \in DOMAIN patch
                    THEN get_user_by_email(patch.email) ELSE None
    IN  /\ CanBegin(p)
        /\ current_user # None
        /\ IF existing # None /\ Get(existing).id # user_id
           THEN Respond(p, "update_me", req, 409, "Email is already registered", None)
           ELSE Continue(p, [stage |-> "update_commit", op |-> "update_me",
                             req |-> req, db_user |-> Get(current_user)])
        /\ UNCHANGED <<now, users, tokens>>

\* db_user.sqlmodel_update(update_data): the loaded object with the fields set
sqlmodel_update(db_user, patch) ==
    [db_user EXCEPT
        !.email = IF "email" \in DOMAIN patch THEN patch.email ELSE @,
        !.is_active = IF "is_active" \in DOMAIN patch THEN patch.is_active ELSE @]

\* the row after the UPDATE of a commit: the columns whose value changed on the
\* loaded object are written, the others keep what the store holds
updated_row(row, loaded, changed) ==
    [row EXCEPT
        !.email = IF changed.email # loaded.email THEN changed.email ELSE @,
        !.is_active = IF changed.is_active # loaded.is_active
                      THEN changed.is_active ELSE @]

\* user_service.update lines 170-174
update_commit(p) ==
    LET loaded == proc[p].db_user
        changed == sqlmodel_update(loaded, proc[p].req.patch)
        row == CHOOSE u \in users : u.id = loaded.id
        after == updated_row(row, loaded, changed)
    IN  /\ proc[p].stage = "update_commit"
        /\ IF after.email # row.email /\ email_unique_violation(row.id, after.email)
           THEN /\ Respond(p, proc[p].op, proc[p].req, 500, "IntegrityError", None)
                /\ UNCHANGED users
           ELSE /\ users' = (users \ {row}) \cup {after}
                /\ Respond(p, proc[p].op, proc[p].req, 200, "", Some(UserRead(after)))
        /\ UNCHANGED <<now, tokens>>

\* --------------------------------------------- handlers as one transaction
\* user_service.create, no other session between its check and its commit
create(p, op, email, password) ==
    LET db_user == new_user(email, password)
    IN  IF get_user_by_email(email) # None
        THEN /\ Respond(p, op, [email |-> email, password |-> password], 409, "Email is already registered", None)
             /\ UNCHANGED users
        ELSE /\ users' = users \cup {db_user}
             /\ Respond(p, op, [email |-> email, password |-> password], 201, "", Some(UserRead(db_user)))

\* signup taking the password of a repeated signup for the existing user
signup_overwriting(p, email, password) ==
    /\ CanBegin(p)
    /\ IF get_user_by_email(email) # None
       THEN /\ Respond(p, "signup", [email |-> email, password |-> password], 400, "A user with this email already exists.", None)
            /\ users' = {IF u.email = email
                         THEN [u EXCEPT !.hashed_password = get_password_hash(password)]
                         ELSE u : u \in users}
       ELSE create(p, "signup", email, password)
    /\ UNCHANGED <<now, tokens>>

\* auth_service.signup
signup(p, email, password) ==
    /\ CanBegin(p)
    /\ IF get_user_by_email(email) # None
       THEN /\ Respond(p, "signup", [email |-> email, password |-> password], 400, "A user with this email already exists.", None)
            /\ UNCHANGED users
       ELSE create(p, "signup", email, password)
    /\ UNCHANGED <<now, tokens>>

\* user_service.update
update(p, user_id, patch) ==
    LET db_user == session_get_user(user_id)
        existing == IF "email" \in DOMAIN patch
                    THEN get_user_by_email(patch.email) ELSE None
    IN  /\ CanBegin(p)
        /\ IF db_user = None
           THEN /\ Respond(p, "update", [user_id |-> user_id, patch |-> patch], 404, "User not found", None)
                /\ UNCHANGED users
           ELSE IF existing # None /\ Get(existing).id # user_id
           THEN /\ Respond(p, "update", [user_id |-> user_id, patch |-> patch], 409, "Email is already registered", None)
                /\ UNCHANGED users
           ELSE LET after == sqlmodel_update(Get(db_user), patch)
                IN  /\ users' = (users \ {Get(db_user)}) \cup {after}
                    /\ Respond(p, "update", [user_id |-> user_id, patch |-> patch], 200, "", Some(UserRead(after)))
        /\ UNCHANGED <<now, tokens>>

\* POST /users: user_service.create(user_data=user_in); the User object is built
\* from email, full_name and the hashed password, the flags of the payload are
\* not read
create_user(p, user_in) ==
    LET db_user == new_user(user_in.email, user_in.password)
    IN  /\ CanBegin(p)
        /\ IF get_user_by_email(user_in.email) # None
           THEN /\ Respond(p, "create_user", user_in, 409, "Email is already registered", None)
                /\ UNCHANGED users
           ELSE /\ users' = users \cup {db_user}
                /\ Respond(p, "create_user", user_in, 201, "", Some(UserRead(db_user)))
        /\ UNCHANGED <<now, tokens>>

\* core/superuser.py: the User(...) object create_first_superuser builds
first_superuser ==
    [id |-> Cardinality(users) + 1,
     email |-> FIRST_SUPERUSER,
     hashed_password |-> get_password_hash(FIRST_SUPERUSER_PASSWORD),
     is_active |-> TRUE,
     is_superuser |-> TRUE]

\* core/superuser.py create_first_superuser, run by the lifespan of every start
\* of the application: it returns when a row has the email FIRST_SUPERUSER
create_first_superuser(p) ==
    /\ CanBegin(p)
    /\ IF get_user_by_email(FIRST_SUPERUSER) # None
       THEN /\ Respond(p, "create_first_superuser", None, 0, "", None)
            /\ UNCHANGED users
       ELSE /\ users' = users \cup {first_superuser}
            /\ Respond(p, "create_first_superuser", None, 0, "", Some(UserRead(first_superuser)))
    /\ UNCHANGED <<now, tokens>>

\* refresh telling the caller why the token string was rejected
refresh_differentiating(p, refresh_token) ==
    LET record == validate_refresh_token(refresh_token)
        req == [refresh_token |-> refresh_token]
        found == {r \in tokens : r.token = refresh_token}
    IN  /\ CanBegin(p)
        /\ IF found = {}
           THEN /\ Respond(p, "refresh", req, 404, "Refresh token not found", None)
                /\ UNCHANGED tokens
           ELSE IF \E r \in found : r.revoked
           THEN /\ Respond(p, "refresh", req, 401, "Refresh token revoked", None)
                /\ UNCHANGED tokens
           ELSE IF record = None
           THEN /\ Respond(p, "refresh", req, 401, "Refresh token expired", None)
                /\ UNCHANGED tokens
           ELSE /\ tokens' = touch_refresh_token(Get(record), utcnow)
                /\ Respond(p, "refresh", req, 200, "",
                           Some([access_token |-> create_access_token(Get(record).user_id),
                                 refresh_token |-> Get(record).token]))
        /\ UNCHANGED <<now, users>>

\* refresh consuming the token: the record is revoked by the call it serves
refresh_consuming(p, refresh_token) ==
    LET record == validate_refresh_token(refresh_token)
    IN  /\ CanBegin(p)
        /\ IF record = None
           THEN /\ Respond(p, "refresh", [refresh_token |-> refresh_token], 401, "Invalid or expired refresh token", None)
                /\ UNCHANGED tokens
           ELSE /\ tokens' = revoke_refresh_token(Get(record))
                /\ Respond(p, "refresh", [refresh_token |-> refresh_token], 200, "",
                           Some([access_token |-> create_access_token(Get(record).user_id),
                                 refresh_token |-> Get(record).token]))
        /\ UNCHANGED <<now, users>>

\* auth_service.refresh
refresh(p, refresh_token) ==
    LET record == validate_refresh_token(refresh_token)
    IN  /\ CanBegin(p)
        /\ IF record = None
           THEN /\ Respond(p, "refresh", [refresh_token |-> refresh_token], 401, "Invalid or expired refresh token", None)
                /\ UNCHANGED tokens
           ELSE /\ tokens' = touch_refresh_token(Get(record), utcnow)
                /\ Respond(p, "refresh", [refresh_token |-> refresh_token], 200, "",
                           Some([access_token |-> create_access_token(Get(record).user_id),
                                 refresh_token |-> Get(record).token]))
        /\ UNCHANGED <<now, users>>

\* logout revoking whatever record holds the token string, valid or not
logout_without_validation(p, refresh_token) ==
    LET found == {r \in tokens : r.token = refresh_token}
    IN  /\ CanBegin(p)
        /\ IF found = {}
           THEN /\ Respond(p, "logout", [refresh_token |-> refresh_token], 401, "Invalid refresh token", None)
                /\ UNCHANGED tokens
           ELSE /\ tokens' = revoke_refresh_token(CHOOSE r \in found : TRUE)
                /\ Respond(p, "logout", [refresh_token |-> refresh_token], 204, "", None)
        /\ UNCHANGED <<now, users>>

\* auth_service.logout
logout(p, refresh_token) ==
    LET record == validate_refresh_token(refresh_token)
    IN  /\ CanBegin(p)
        /\ IF record = None
           THEN /\ Respond(p, "logout", [refresh_token |-> refresh_token], 401, "Invalid refresh token", None)
                /\ UNCHANGED tokens
           ELSE /\ tokens' = revoke_refresh_token(Get(record))
                /\ Respond(p, "logout", [refresh_token |-> refresh_token], 204, "", None)
        /\ UNCHANGED <<now, users>>

\* ------------------------------------------------------------- token signer
\* a call of security.create_access_token with its arguments
issue_access(p, subject, expires_minutes) ==
    /\ CanBegin(p)
    /\ Respond(p, "create_access_token",
               [subject |-> subject, ttl |-> expires_minutes], 0, "",
               Some(security_create_access_token_ttl(subject, expires_minutes)))
    /\ UNCHANGED <<now, users, tokens>>

\* a call of security.create_refresh_token with its arguments
issue_refresh(p, subject, expires_days) ==
    /\ CanBegin(p)
    /\ Respond(p, "create_refresh_token",
               [subject |-> subject, ttl |-> expires_days], 0, "",
               Some(create_refresh_token_ttl(subject, expires_days)))
    /\ UNCHANGED <<now, users, tokens>>

\* --------------------------------------------------------------------- next
\* the authentication core, every handler one transaction
Next ==
    \/ Tick
    \/ \E e \in RegisteredEmails, pw \in Passwords :
          \* a first signup registers with a password of SignupPasswords, a
          \* repeated one may give any
          /\ pw \in SignupPasswords \/ get_user_by_email(e) # None
          /\ signup("c1", e, pw)
    \/ \E u \in UserIds, patch \in StatusPatches : update("c1", u, patch)
    \/ \E e \in Emails, pw \in Passwords : login("c1", e, pw)
    \/ \E t \in TokenStrings : refresh("c1", t)
    \/ \E t \in TokenStrings : logout("c1", t)

Spec == Init /\ [][Next]_vars

\* two sessions: refresh and logout interleave at their commits
NextRace ==
    \/ Tick
    \/ \E p \in Procs, e \in RegisteredEmails, pw \in SignupPasswords : signup(p, e, pw)
    \/ /\ Cardinality(tokens) < MaxRaceTokens
       /\ \E p \in Procs, e \in RegisteredEmails, pw \in SignupPasswords : login(p, e, pw)
    \/ \E p \in Procs, t \in IssuableStrings : refresh_validate(p, t)
    \/ \E p \in Procs : refresh_stamp(p)
    \/ \E p \in Procs : refresh_touch(p)
    \/ \E p \in Procs, t \in IssuableStrings : logout_validate(p, t)
    \/ \E p \in Procs : logout_revoke(p)

SpecRace == Init /\ [][NextRace]_vars

\* user management: signup, create and update interleave at every store access
NextUsers ==
    \/ \E p \in Procs, e \in Emails, pw \in SignupPasswords : signup_check(p, e, pw)
    \/ \E p \in Procs : create_check(p)
    \/ \E p \in Procs : create_insert(p)
    \/ \E p \in Procs, u \in UserIds, patch \in Patches : update_check(p, u, patch)
    \/ \E p \in Procs, u \in UserIds, patch \in EmailPatches : update_me_check(p, u, patch)
    \/ \E p \in Procs : update_commit(p)

SpecUsers == Init /\ [][NextUsers]_vars

\* the token signer alone, called with every subject and ttl
NextSigner ==
    \/ Tick
    \/ \E u \in UserIds, ttl \in Ttls : issue_access("c1", u, ttl)
    \/ \E u \in UserIds, ttl \in Ttls : issue_refresh("c1", u, ttl)

SpecSigner == Init /\ [][NextSigner]_vars

\* account creation: the application starts any number of times between the
\* requests that create users and change their email
NextAdmin ==
    \/ create_first_superuser("c1")
    \/ \E e \in Emails, pw \in SignupPasswords : signup("c1", e, pw)
    \/ \E user_in \in UserCreates : create_user("c1", user_in)
    \/ \E u \in StoredUserIds, patch \in EmailPatches : update("c1", u, patch)

SpecAdmin == Init /\ [][NextAdmin]_vars

\* =================================================================== claims
StoredRow(id) == CHOOSE r \in tokens : r.id = id
Registered(email, password) ==
    \E u \in users : u.email = email /\ verify_password(password, u.hashed_password)
RefreshRejected(t) ==
    Response("refresh", [refresh_token |-> t], 401,
             "Invalid or expired refresh token", None)

\* C1: once a record is revoked, it stays revoked and validate_refresh_token
\* returns None for its token string in this and in every later state, also
\* while now < expires_at; a refresh with that string is rejected and changes
\* nothing
C1_RevokedStaysInvalid ==
    [][\A r \in tokens : r.revoked =>
          /\ validate_refresh_token(r.token) = None
          /\ \E r2 \in tokens' : r2.id = r.id /\ r2.token = r.token /\ r2.revoked
          /\ (validate_refresh_token(r.token))' = None
          /\ refresh("c1", r.token) =>
                resp' = RefreshRejected(r.token) /\ tokens' = tokens]_vars

\* a refresh was just rejected for a revoked record that has not yet expired
C1_Witness ==
    \E r \in tokens :
        /\ r.revoked /\ now < r.expires_at.t
        /\ resp = RefreshRejected(r.token)

C3_RefreshAfterRevokeRejected ==
    [][\A p \in Procs :
          (refresh_touch(p) /\ StoredRow(proc[p].record.id).revoked)
          => resp' = RefreshRejected(proc[p].record.token) /\ tokens' = tokens]_vars

\* C4: a record whose expires_at is strictly before the clock is never valid,
\* revoked or not, and a refresh with its token string is rejected and changes
\* nothing
C4_ExpiredNeverValid ==
    [][\A r \in tokens : r.expires_at.t < now =>
          /\ validate_refresh_token(r.token) = None
          /\ refresh("c1", r.token) =>
                resp' = RefreshRejected(r.token) /\ tokens' = tokens]_vars

\* a refresh was just rejected for an expired record that is not revoked
C4_Witness ==
    \E r \in tokens :
        /\ r.expires_at.t < now /\ ~r.revoked
        /\ resp = RefreshRejected(r.token)

\* C5: validate_refresh_token returns None whenever expires_at <= now
C5_InvalidAtExpiry ==
    \A r \in tokens : r.expires_at.t <= now => validate_refresh_token(r.token) = None

\* C6: a token string no record holds is never valid, and refresh and logout
\* with it are rejected and leave the table as it is
C6_UnknownTokenInvalid ==
    [][\A t \in TokenStrings : (\A r \in tokens : r.token # t) =>
          /\ validate_refresh_token(t) = None
          /\ (refresh("c1", t) \/ logout("c1", t)) =>
                resp'.status = 401 /\ resp'.body = None /\ tokens' = tokens]_vars

\* a refresh or logout was just rejected for a string no record holds, while
\* the table holds a valid record
C6_Witness ==
    /\ resp.op \in {"refresh", "logout"} /\ resp.status = 401
    /\ \A r \in tokens : r.token # resp.req.refresh_token
    /\ \E r \in tokens : validate_refresh_token(r.token) # None

\* C7: a login with a registered pair of an active user succeeds and returns
\* a refresh token string that validate_refresh_token accepts at once: its
\* record exists, is not revoked and expires in the future
C7_RegisteredLoginSucceeds ==
    [][\A e \in Emails, pw \in Passwords :
          (login("c1", e, pw)
           /\ \E u \in users : /\ u.email = e /\ u.is_active
                               /\ verify_password(pw, u.hashed_password))
          => /\ resp'.status = 200
             /\ \E r \in tokens' : /\ r.token = Get(resp'.body).refresh_token
                                   /\ ~r.revoked
                                   /\ r.expires_at.t > now']_vars

\* C8: every create_refresh_token_record succeeds and persists a record whose
\* token string no earlier record holds
C8_IssueAlwaysFresh ==
    [][\A e \in Emails, pw \in Passwords :
          (login("c1", e, pw)
           /\ \E u \in users : /\ u.email = e /\ u.is_active
                               /\ verify_password(pw, u.hashed_password))
          => \E r \in tokens' : /\ r \notin tokens
                                /\ \A r0 \in tokens : r0.token # r.token]_vars

\* C9: login answers an unknown email and a wrong password with the same
\* status, detail and body, and adds no record
C9_SameSignalUnknownOrWrong ==
    [][\A e \in Emails, pw \in Passwords :
          (login("c1", e, pw) /\ ~Registered(e, pw))
          => /\ resp'.status = 400
             /\ resp'.detail = "Incorrect email or password"
             /\ resp'.body = None
             /\ tokens' = tokens]_vars

\* a wrong password for a registered email has just been answered with the
\* signal of an unknown email
C9_Witness ==
    /\ resp.op = "login" /\ resp.status = 400
    /\ resp.detail = "Incorrect email or password"
    /\ get_user_by_email(resp.req.email) # None
    /\ ~Registered(resp.req.email, resp.req.password)

\* C10: login of an inactive user with the right password is rejected as
\* inactive, with the wrong password as incorrect credentials; neither issues
\* a token
C10_InactiveRejected ==
    [][\A e \in Emails, pw \in Passwords :
          (login("c1", e, pw) /\ \E u \in users : u.email = e /\ ~u.is_active)
          => /\ resp'.status = 400
             /\ resp'.body = None
             /\ tokens' = tokens
             /\ resp'.detail = IF Registered(e, pw) THEN "Inactive user"
                               ELSE "Incorrect email or password"]_vars

\* an inactive user has just been refused with the right password
C10_Witness ==
    /\ resp.op = "login" /\ resp.detail = "Inactive user"
    /\ \E u \in users : /\ u.email = resp.req.email /\ ~u.is_active
                        /\ verify_password(resp.req.password, u.hashed_password)

\* C11: a successful refresh returns an access token whose subject is the
\* user id of the record, paired with the token string it was given; it adds
\* no record, and the token string is still valid after it
C11_RefreshKeepsToken ==
    [][\A t \in TokenStrings :
          (refresh("c1", t) /\ resp'.status = 200) =>
          /\ Get(resp'.body).refresh_token = t
          /\ \E r \in tokens : /\ r.token = t
                                /\ Get(resp'.body).access_token.sub = str(r.user_id)
          /\ {r.id : r \in tokens'} = {r.id : r \in tokens}
          /\ {r.token : r \in tokens'} = {r.token : r \in tokens}
          /\ (validate_refresh_token(t))' # None]_vars

\* a refresh has just succeeded at a later instant than the login that issued
\* its token string, and the string is still valid
C11_Witness ==
    /\ resp.op = "refresh" /\ resp.status = 200
    /\ \E r \in tokens : /\ r.token = resp.req.refresh_token
                          /\ r.last_used_at # None
                          /\ r.created_at.t < Get(r.last_used_at).t
                          /\ validate_refresh_token(r.token) # None

\* C12: revoke_refresh_token on a record that is already revoked in the store
\* raises no error and is a no-op: revoked stays true and revoked_at keeps the
\* value the first call stamped
C12_RevokeTwiceNoOp ==
    [][\A p \in Procs :
          (logout_revoke(p) /\ StoredRow(proc[p].record.id).revoked) =>
          /\ resp'.status = 204
          /\ \E r2 \in tokens' :
                /\ r2.id = proc[p].record.id
                /\ r2.revoked
                /\ r2.revoked_at = StoredRow(proc[p].record.id).revoked_at]_vars

\* C13: no step takes a record back to active: its revoked flag never goes
\* from true to false, its expires_at stays the instant set at issuance (never
\* later), and once validate_refresh_token rejects its token string it rejects
\* it in the next state too
C13_NoWayBackToActive ==
    [][\A r \in tokens : \E r2 \in tokens' :
          /\ r2.id = r.id /\ r2.token = r.token
          /\ (r.revoked => r2.revoked)
          /\ r2.expires_at.t <= r.expires_at.t
          /\ r.expires_at.t = r.created_at.t + RefreshLifetime
          /\ ((validate_refresh_token(r.token) = None)
                => ((validate_refresh_token(r.token))' = None))]_vars

\* a refresh has committed its touch on a record a racing logout had already
\* revoked, and the record is still revoked
C13_Witness ==
    \E r \in tokens :
        /\ r.revoked /\ r.last_used_at # None
        /\ Get(r.revoked_at).t < Get(r.last_used_at).t
        /\ resp.op = "refresh" /\ resp.status = 200
        /\ resp.req.refresh_token = r.token

\* C14: the access token a login or a refresh has just returned expires
\* strictly before the expires_at of the refresh token record returned with it
C14_AccessExpiresBeforeRefresh ==
    (resp.op \in {"login", "refresh"} /\ resp.status = 200) =>
        \A r \in tokens :
            r.token = Get(resp.body).refresh_token
                => Get(resp.body).access_token.exp < r.expires_at.t

\* C15: a signup with an email a user already has is rejected with the
\* signal of a taken email and changes neither table: no user is added, the
\* existing user keeps its password hash and flags, and authenticate answers
\* every password for that email as before
C15_DuplicateSignupRejected ==
    [][\A e \in Emails, pw \in Passwords :
          (signup("c1", e, pw) /\ get_user_by_email(e) # None) =>
          /\ resp'.status = 400
          /\ resp'.detail = "A user with this email already exists."
          /\ resp'.body = None
          /\ users' = users
          /\ tokens' = tokens
          /\ \A pw2 \in Passwords :
                (authenticate(e, pw2))' = authenticate(e, pw2)]_vars

\* a signup has just been rejected for a registered email, with a password
\* other than the registered one
C15_Witness ==
    /\ resp.op = "signup" /\ resp.status = 400
    /\ ~Registered(resp.req.email, resp.req.password)
    /\ \E pw \in Passwords : Registered(resp.req.email, pw)

\* C16: no two rows of the user table have the same email, whatever the
\* interleaving of signup, create, update and update_me
C16_EmailUnique ==
    \A u1 \in users, u2 \in users : u1.email = u2.email => u1 = u2

\* two signups with one email both passed the existence checks, and the one
\* that committed second was stopped by the unique index
C16_Witness ==
    /\ resp.op = "signup" /\ resp.status = 500
    /\ \E u \in users : u.email = resp.req.email

\* C17: the token the signer has just returned encodes the subject it was
\* given and expires at now + ttl for the ttl it was given, 0 included; it
\* uses the configured default only when no ttl was passed
C17_ExplicitTtlHonoured ==
    (resp.op \in {"create_access_token", "create_refresh_token"}) =>
        LET ttl == resp.req.ttl
            lifetime ==
                IF resp.op = "create_access_token"
                THEN timedelta_minutes(IF ttl = None THEN ACCESS_TOKEN_EXPIRE_MINUTES
                                       ELSE Get(ttl))
                ELSE timedelta_days(IF ttl = None THEN REFRESH_TOKEN_EXPIRE_DAYS
                                    ELSE Get(ttl))
        IN  /\ Get(resp.body).sub = str(resp.req.subject)
            /\ Get(resp.body).exp = now + lifetime

\* C18: a successful login adds exactly one record, owned by the authenticated
\* user, not revoked, never used, expiring at now + the refresh lifetime and
\* holding the token string returned, and leaves every earlier record as it
\* was; a login that fails adds none
C18_LoginAddsOneRecord ==
    [][\A e \in Emails, pw \in Passwords :
          login("c1", e, pw) =>
              IF resp'.status = 200
              THEN \E r \in tokens' :
                      /\ r \notin tokens
                      /\ tokens' = tokens \cup {r}
                      /\ r.user_id = Get(authenticate(e, pw)).id
                      /\ ~r.revoked
                      /\ r.last_used_at = None /\ r.revoked_at = None
                      /\ r.expires_at.t = now + RefreshLifetime
                      /\ r.token = Get(resp'.body).refresh_token
              ELSE tokens' = tokens]_vars

\* a login has just succeeded for a user who holds an earlier record, which
\* is still valid
C18_Witness ==
    /\ resp.op = "login" /\ resp.status = 200
    /\ \E r1 \in tokens, r2 \in tokens :
          /\ r1.user_id = r2.user_id
          /\ r1.created_at.t < r2.created_at.t
          /\ r2.token = Get(resp.body).refresh_token
          /\ validate_refresh_token(r1.token) # None

\* C19: no step of login, signup, refresh or logout removes a record: every
\* stored record is still stored in the next state, with its id, owner and
\* token string, revoked or expired as it may be
C19_RecordsNeverRemoved ==
    [][/\ Cardinality(tokens') >= Cardinality(tokens)
       /\ \A r \in tokens : \E r2 \in tokens' :
             r2.id = r.id /\ r2.token = r.token /\ r2.user_id = r.user_id]_vars

\* a logout has just revoked a record while the store also holds an expired
\* one: both are still there
C19_Witness ==
    /\ resp.op = "logout" /\ resp.status = 204
    /\ \E r1 \in tokens, r2 \in tokens :
          /\ r1.revoked /\ r1.token = resp.req.refresh_token
          /\ r2.id # r1.id /\ r2.expires_at.t < now

\* C20: a taken email is signalled by one code on every path that raises it:
\* the existence check of user_service.create answers a taken email with the
\* status and detail the pre-check of signup answers it with
C20_EmailTakenOneCode ==
    [][\A p \in Procs :
          /\ \A e \in Emails, pw \in SignupPasswords :
                (signup_check(p, e, pw) /\ get_user_by_email(e) # None) =>
                    /\ resp'.status = 400
                    /\ resp'.detail = "A user with this email already exists."
          /\ (create_check(p) /\ get_user_by_email(proc[p].req.email) # None) =>
                    /\ resp'.status = 400
                    /\ resp'.detail = "A user with this email already exists."]_vars

\* C21: a successful refresh sets the last_used_at of the record of its token
\* string to the clock value of the refresh, in the store, and changes no
\* other field of that record and no other record
C21_RefreshSetsOnlyLastUsed ==
    [][\A t \in TokenStrings :
          (refresh("c1", t) /\ resp'.status = 200) =>
              \E r \in tokens :
                  /\ r.token = t
                  /\ tokens' = (tokens \ {r})
                        \cup {[r EXCEPT !.last_used_at = Some(db_datetime(utcnow))]}
                  /\ \E r2 \in tokens' : r2.id = r.id /\ Get(r2.last_used_at).t = now]_vars

\* a refresh has just stamped its record while the store holds another record
\* with an older stamp
C21_Witness ==
    /\ resp.op = "refresh" /\ resp.status = 200
    /\ \E r1 \in tokens, r2 \in tokens :
          /\ r1.token = resp.req.refresh_token
          /\ r1.last_used_at # None /\ Get(r1.last_used_at).t = now
          /\ r2.id # r1.id
          /\ r2.last_used_at # None /\ Get(r2.last_used_at).t < now

\* C22: a refresh with a token string that no record holds, or whose record
\* is revoked, or whose record is past its expires_at, is answered with the
\* one signal of an invalid or expired token, without an access token, and
\* leaves every record as it was
C22_RefreshFailsUndifferentiated ==
    [][\A t \in TokenStrings :
          (/\ refresh("c1", t)
           /\ \/ \A r \in tokens : r.token # t
              \/ \E r \in tokens : r.token = t /\ r.revoked
              \/ \E r \in tokens : r.token = t /\ r.expires_at.t < now)
          => /\ resp' = RefreshRejected(t)
             /\ resp'.body = None
             /\ tokens' = tokens]_vars

\* a refresh has just been rejected for an expired record that an earlier
\* refresh had used, and its last_used_at is still that of the earlier one
C22_Witness ==
    \E r \in tokens :
        /\ resp = RefreshRejected(r.token)
        /\ ~r.revoked /\ r.expires_at.t < now
        /\ r.last_used_at # None /\ Get(r.last_used_at).t < now

\* C23: a logout with a token string that no record holds, or whose record is
\* already revoked or past its expires_at, is answered as an invalid token and
\* changes nothing (no revoked flag set, no revoked_at stamped again); a
\* logout with a token string validate_refresh_token accepts sets revoked and
\* stamps revoked_at with the clock, on that record only
C23_LogoutValidatesFirst ==
    [][\A t \in TokenStrings :
          logout("c1", t) =>
              IF \/ \A r \in tokens : r.token # t
                 \/ \E r \in tokens : r.token = t /\ r.revoked
                 \/ \E r \in tokens : r.token = t /\ r.expires_at.t < now
              THEN /\ resp'.status = 401
                   /\ resp'.detail = "Invalid refresh token"
                   /\ tokens' = tokens
              ELSE /\ resp'.status = 204
                   /\ \E r \in tokens :
                         /\ r.token = t
                         /\ tokens' = (tokens \ {r})
                               \cup {[r EXCEPT !.revoked = TRUE,
                                               !.revoked_at = Some(db_datetime(utcnow))]}]_vars

\* a second logout of a token string has just been rejected, later than the
\* first and before the record expires: revoked_at is still that of the first
C23_Witness ==
    /\ resp.op = "logout" /\ resp.status = 401
    /\ \E r \in tokens :
          /\ r.token = resp.req.refresh_token
          /\ r.revoked /\ Get(r.revoked_at).t < now
          /\ now < r.expires_at.t

\* C24: a signup whose INSERT is stopped by the unique index on email, after
\* it passed the existence checks, is answered with the taken-email error (one
\* of the two signals the code has for it), never with a raw store exception
C24_RaceLoserGetsEmailTaken ==
    [][\A p \in Procs :
          (/\ create_insert(p)
           /\ proc[p].op = "signup"
           /\ get_user_by_email(proc[p].req.email) # None)
          => /\ resp'.status \in {400, 409}
             /\ resp'.detail \in {"A user with this email already exists.",
                                  "Email is already registered"}]_vars

\* C25: a logout with token string t leaves every record that holds another
\* token string exactly as it was, the other records of the same user
\* included, and a record valid before the logout is valid after it
C25_LogoutRevokesOnlyItsRecord ==
    [][\A t \in TokenStrings :
          logout("c1", t) =>
              \A r \in tokens : r.token # t =>
                  /\ r \in tokens'
                  /\ (validate_refresh_token(r.token) # None
                        => (validate_refresh_token(r.token))' # None)]_vars

\* a logout has just revoked one record of a user whose other record is
\* still valid
C25_Witness ==
    /\ resp.op = "logout" /\ resp.status = 204
    /\ \E r1 \in tokens, r2 \in tokens :
          /\ r1.token = resp.req.refresh_token /\ r1.revoked
          /\ r2.id # r1.id /\ r2.user_id = r1.user_id
          /\ validate_refresh_token(r2.token) # None

\* C26: every record is revoked exactly when its revoked_at is set
C26_RevokedIffStamped ==
    \A r \in tokens : r.revoked <=> (r.revoked_at # None)

\* a session still holds a record it loaded as not revoked, without a
\* revoked_at, while the record is revoked and stamped in the store
C26_Witness ==
    \E p \in Procs :
        /\ proc[p].stage \in {"refresh_stamp", "refresh_touch", "logout_revoke"}
        /\ ~proc[p].record.revoked /\ proc[p].record.revoked_at = None
        /\ StoredRow(proc[p].record.id).revoked
        /\ StoredRow(proc[p].record.id).revoked_at # None

\* C28: the last_used_at a refresh commits is never earlier than the one it
\* replaces
C28_LastUsedNeverDecreases ==
    [][\A r \in tokens : \A r2 \in tokens' :
          (r2.id = r.id /\ r.last_used_at # None) =>
              /\ r2.last_used_at # None
              /\ Get(r.last_used_at).t <= Get(r2.last_used_at).t]_vars

\* C27: the access token a login or a refresh has just returned is for a user
\* whose is_active flag is true
C27_NoAccessTokenForInactive ==
    (resp.op \in {"login", "refresh"} /\ resp.status = 200) =>
        \E u \in users :
            /\ str(u.id) = Get(resp.body).access_token.sub
            /\ u.is_active

\* C29: a row that signup or user_service.create adds is active and not a
\* superuser whatever the payload says; a row create_first_superuser adds is a
\* superuser, and it adds one only when no row it added earlier is stored
C29_CreationFlags ==
    [][\A u \in users' :
          (\A u0 \in users : u0.id # u.id) =>
              IF resp'.op = "create_first_superuser"
              THEN /\ u.is_superuser
                   /\ \A u0 \in users : ~u0.is_superuser
              ELSE u.is_active /\ ~u.is_superuser]_vars

====
